---- MODULE Spec2Model ----
(***************************************************************************)
(* Model of advanced-vector/vector.h: RawMemory<T> (an owned block of raw  *)
(* slots) and Vector<T> (a RawMemory plus the count of live elements).     *)
(*                                                                         *)
(* A RawMemory is modelled by the sequence of its slots: the length is     *)
(* capacity_, a slot is Raw (no object) or holds the value of a live T.    *)
(* Every operation takes a failure input `fail`: the fail-th operation     *)
(* that may throw (operator new, a T constructor) throws; 0 means none.    *)
(* Assignment operators of T are taken not to throw.                       *)
(*                                                                         *)
(* State: T, the traits of the element type; vec, the two Vector objects;  *)
(* call, the record of the last call (its arguments, the elements and the  *)
(* capacity before it, the other vector before it, what it constructed,    *)
(* destroyed, allocated and released); pushed, the values appended to a    *)
(* vector since it was empty.                                              *)
(*                                                                         *)
(* The special members of RawMemory itself are modelled a second time, at  *)
(* the level of pointers (specification SpecRaw): raw, the RawMemory       *)
(* objects with their buffer_ and capacity_; heap, the state of every      *)
(* block operator new can return; rcall, the record of the last call.      *)
(***************************************************************************)
EXTENDS Integers, Sequences, FiniteSets, TLC

\* ---- bounds ----
MaxCap == 4          \* capacity of a vector; calls that would exceed it are not taken
MaxVal == 1          \* element values are 0..MaxVal
MaxBlocks == 3       \* blocks operator new returns in one run of SpecRaw
MaxRawCap == 2       \* capacity asked of RawMemory(size_t) in SpecRaw

\* ---- slot contents ----
Raw == -1            \* uninitialized memory: no live object in the slot
MovedFrom == -2      \* a live object that has been moved from
DefaultValue == 0    \* a value-initialized object, T()

Values == 0..MaxVal
VecIds == {"a", "b"}

\* The element type T, by the two traits the code asks about.
ElemTypes ==
  { [nothrow_move |-> TRUE,  copyable |-> TRUE],
    [nothrow_move |-> FALSE, copyable |-> TRUE],
    [nothrow_move |-> FALSE, copyable |-> FALSE] }

VARIABLES T, vec, call, pushed, raw, heap, rcall
vars == <<T, vec, call, pushed, raw, heap, rcall>>

\* ---- small helpers ----
Max(x, y) == IF x >= y THEN x ELSE y

\* number of live objects in a block
LiveCount(buf) == Cardinality({i \in DOMAIN buf : buf[i] # Raw})

\* the values of slots [0, n) of a block, as a sequence
Prefix(buf, n) == [i \in 1..n |-> buf[i]]

\* ---- RawMemory ----
\* RawMemory(size_t capacity): a block of `capacity` raw slots (null when 0)
Allocate(n) == [i \in 1..n |-> Raw]

\* number of blocks operator delete really releases for a buffer
Deallocate(buf) == IF Len(buf) # 0 THEN 1 ELSE 0

\* ---- element-level primitives ----
\* placement new at slot index i (0-based)
ConstructAt(buf, i, x) == [buf EXCEPT ![i + 1] = x]

\* std::destroy_n(buf + first, n)
DestroyN(buf, first, n) ==
  [i \in DOMAIN buf |-> IF i - 1 >= first /\ i - 1 < first + n THEN Raw ELSE buf[i]]

\* std::uninitialized_copy_n(src + sfirst, n, dst + dfirst); failAt in 1..n
\* makes the failAt-th copy construction throw: the copies already made are
\* destroyed again and the exception propagates.
UninitializedCopyN(src, sfirst, n, dst, dfirst, failAt) ==
  IF failAt >= 1 /\ failAt <= n
  THEN [ok |-> FALSE, src |-> src, dst |-> dst,
        copied |-> failAt - 1, moved |-> 0, gone |-> failAt - 1]
  ELSE [ok |-> TRUE, src |-> src,
        dst |-> [i \in DOMAIN dst |->
                  IF i - 1 >= dfirst /\ i - 1 < dfirst + n
                  THEN src[sfirst + (i - dfirst)] ELSE dst[i]],
        copied |-> n, moved |-> 0, gone |-> 0]

\* std::uninitialized_move_n(src + sfirst, n, dst + dfirst): as above with
\* move construction; every source already moved stays moved-from.
UninitializedMoveN(src, sfirst, n, dst, dfirst, failAt) ==
  IF failAt >= 1 /\ failAt <= n
  THEN [ok |-> FALSE,
        src |-> [i \in DOMAIN src |->
                  IF i - 1 >= sfirst /\ i - 1 < sfirst + failAt - 1
                  THEN MovedFrom ELSE src[i]],
        dst |-> dst,
        copied |-> 0, moved |-> failAt - 1, gone |-> failAt - 1]
  ELSE [ok |-> TRUE,
        src |-> [i \in DOMAIN src |->
                  IF i - 1 >= sfirst /\ i - 1 < sfirst + n
                  THEN MovedFrom ELSE src[i]],
        dst |-> [i \in DOMAIN dst |->
                  IF i - 1 >= dfirst /\ i - 1 < dfirst + n
                  THEN src[sfirst + (i - dfirst)] ELSE dst[i]],
        copied |-> 0, moved |-> n, gone |-> 0]

\* a policy that always moves
UseMoveAlways(t) == TRUE

\* a policy that looks at the move constructor only
UseMoveOnlyNothrow(t) == t.nothrow_move

\* if constexpr (is_nothrow_move_constructible_v<T> || !is_copy_constructible_v<T>)
UseMove(t) == t.nothrow_move \/ ~t.copyable

\* a transfer that leaves the last element behind
TransferOffByOne(t, src, sfirst, n, dst, dfirst, failAt) ==
  IF UseMove(t)
  THEN UninitializedMoveN(src, sfirst, n - 1, dst, dfirst,
                          IF t.nothrow_move THEN 0 ELSE failAt)
  ELSE UninitializedCopyN(src, sfirst, n - 1, dst, dfirst, failAt)

\* the move-or-copy transfer of n elements; a no-throw move has no failure
Transfer(t, src, sfirst, n, dst, dfirst, failAt) ==
  IF UseMove(t)
  THEN UninitializedMoveN(src, sfirst, n, dst, dfirst,
                          IF t.nothrow_move THEN 0 ELSE failAt)
  ELSE UninitializedCopyN(src, sfirst, n, dst, dfirst, failAt)

\* number of operations of a transfer of n elements that may throw
TransferPoints(t, n) == IF t.nothrow_move THEN 0 ELSE n

\* std::uninitialized_value_construct_n(buf + first, n)
UninitializedValueConstructN(buf, first, n, failAt) ==
  IF failAt >= 1 /\ failAt <= n
  THEN [ok |-> FALSE, buf |-> buf, made |-> failAt - 1, gone |-> failAt - 1]
  ELSE [ok |-> TRUE,
        buf |-> [i \in DOMAIN buf |->
                  IF i - 1 >= first /\ i - 1 < first + n
                  THEN DefaultValue ELSE buf[i]],
        made |-> n, gone |-> 0]

\* a shift that starts one element too late
RECURSIVE MoveForwardFromNext(_, _, _, _)
MoveForwardFromNext(buf, first, last, d_first) ==
  IF first + 1 >= last THEN buf
  ELSE MoveForwardFromNext([buf EXCEPT ![d_first + 2] = buf[first + 2],
                                       ![first + 2] = MovedFrom],
                           first + 1, last, d_first + 1)

\* std::move(buf + first, buf + last, buf + d_first): move-assigns left to right
RECURSIVE MoveForward(_, _, _, _)
MoveForward(buf, first, last, d_first) ==
  IF first >= last THEN buf
  ELSE MoveForward([buf EXCEPT ![d_first + 1] = buf[first + 1],
                               ![first + 1] = MovedFrom],
                   first + 1, last, d_first + 1)

\* the same shift done left to right, as std::move would do it
MoveOverlapForward(buf, first, last, d_last) ==
  MoveForward(buf, first, last, d_last - (last - first))

\* std::move_backward(buf + first, buf + last, buf + d_last): move-assigns
\* right to left; each source is left moved-from.
RECURSIVE MoveBackward(_, _, _, _)
MoveBackward(buf, first, last, d_last) ==
  IF first >= last THEN buf
  ELSE MoveBackward([buf EXCEPT ![d_last] = buf[last], ![last] = MovedFrom],
                    first, last - 1, d_last - 1)

\* ---- Vector ----
\* a Vector object: data_ (the RawMemory block) and size_
NoVector == [alive |-> FALSE, data |-> <<>>, size |-> 0]
MkVector(data, size) == [alive |-> TRUE, data |-> data, size |-> size]

Size(v) == v.size
Capacity(v) == Len(v.data)
\* the elements [0, size) as a sequence of values
Elems(v) == Prefix(v.data, v.size)

\* what one operation did: blocks allocated and released, objects constructed
\* (made) and destroyed (gone), existing elements copy- or move-constructed,
\* and objects still alive in a block when it was released (leaked)
Stats(allocs, frees, made, gone, copied, moved, leaked) ==
  [allocs |-> allocs, frees |-> frees, made |-> made, gone |-> gone,
   copied |-> copied, moved |-> moved, leaked |-> leaked]
NoStats == Stats(0, 0, 0, 0, 0, 0, 0)

\* the result of a call: the vector after it, the step that threw ("none"
\* when the call returned), the returned index, and what the call did
Res(v, threw, ret, st) ==
  [vec |-> v, ok |-> threw = "none", threw |-> threw, ret |-> ret, st |-> st]

\* a Reserve that grows to at least twice the capacity
ReserveGeometric(t, v, new_capacity, fail) ==
  IF new_capacity <= Capacity(v) THEN Res(v, "none", 0, NoStats)
  ELSE IF fail = 1 THEN Res(v, "alloc", 0, NoStats)
  ELSE
    LET new_data == Allocate(Max(new_capacity, 2 * Capacity(v)))
        tr == Transfer(t, v.data, 0, v.size, new_data, 0, fail - 1)
    IN IF ~tr.ok
       THEN Res([v EXCEPT !.data = tr.src], "transfer", 0,
                Stats(1, Deallocate(tr.dst), tr.copied + tr.moved, tr.gone,
                      tr.copied, tr.moved, LiveCount(tr.dst)))
       ELSE LET old == DestroyN(tr.src, 0, v.size)
            IN Res([v EXCEPT !.data = tr.dst], "none", 0,
                   Stats(1, Deallocate(old), tr.copied + tr.moved, v.size,
                         tr.copied, tr.moved, LiveCount(old)))

\* Vector::Reserve(new_capacity)
Reserve(t, v, new_capacity, fail) ==
  IF new_capacity <= Capacity(v) THEN Res(v, "none", 0, NoStats)
  ELSE IF fail = 1 THEN Res(v, "alloc", 0, NoStats)
  ELSE
    LET new_data == Allocate(new_capacity)
        tr == Transfer(t, v.data, 0, v.size, new_data, 0, fail - 1)
    IN IF ~tr.ok
       THEN Res([v EXCEPT !.data = tr.src], "transfer", 0,
                Stats(1, Deallocate(tr.dst), tr.copied + tr.moved, tr.gone,
                      tr.copied, tr.moved, LiveCount(tr.dst)))
       ELSE LET old == DestroyN(tr.src, 0, v.size)
            IN Res([v EXCEPT !.data = tr.dst], "none", 0,
                   Stats(1, Deallocate(old), tr.copied + tr.moved, v.size,
                         tr.copied, tr.moved, LiveCount(old)))

\* number of operations of Reserve that may throw
ReservePoints(t, v, new_capacity) ==
  IF new_capacity <= Capacity(v) THEN 0 ELSE 1 + TransferPoints(t, v.size)

\* number of operations of Resize that may throw
ResizePoints(t, v, new_size) ==
  IF new_size > v.size
  THEN ReservePoints(t, v, new_size) + (new_size - v.size) ELSE 0

\* a Resize that asks for room the way an append does
ResizeAmortized(t, v, new_size, fail) ==
  IF new_size > v.size
  THEN LET r == ReserveGeometric(t, v, new_size, fail)
       IN IF ~r.ok THEN r
          ELSE LET vc == UninitializedValueConstructN(r.vec.data, v.size,
                            new_size - v.size,
                            fail - ReservePoints(t, v, new_size))
                   st == [r.st EXCEPT !.made = @ + vc.made, !.gone = @ + vc.gone]
               IN IF ~vc.ok THEN Res(r.vec, "value", 0, st)
                  ELSE Res(MkVector(vc.buf, new_size), "none", 0, st)
  ELSE IF new_size < v.size
  THEN Res(MkVector(DestroyN(v.data, new_size, v.size - new_size), new_size),
           "none", 0, Stats(0, 0, 0, v.size - new_size, 0, 0, 0))
  ELSE Res(v, "none", 0, NoStats)

\* a Resize that sets size_ before the new elements are constructed
ResizeSizeFirst(t, v, new_size, fail) ==
  IF new_size > v.size
  THEN LET r == Reserve(t, v, new_size, fail)
       IN IF ~r.ok THEN r
          ELSE LET vc == UninitializedValueConstructN(r.vec.data, v.size,
                            new_size - v.size,
                            fail - ReservePoints(t, v, new_size))
                   st == [r.st EXCEPT !.made = @ + vc.made, !.gone = @ + vc.gone]
               IN IF ~vc.ok THEN Res(MkVector(vc.buf, new_size), "value", 0, st)
                  ELSE Res(MkVector(vc.buf, new_size), "none", 0, st)
  ELSE IF new_size < v.size
  THEN Res(MkVector(DestroyN(v.data, new_size, v.size - new_size), new_size),
           "none", 0, Stats(0, 0, 0, v.size - new_size, 0, 0, 0))
  ELSE Res(v, "none", 0, NoStats)

\* Vector::Resize(new_size)
Resize(t, v, new_size, fail) ==
  IF new_size > v.size
  THEN LET r == Reserve(t, v, new_size, fail)
       IN IF ~r.ok THEN r
          ELSE LET vc == UninitializedValueConstructN(r.vec.data, v.size,
                            new_size - v.size,
                            fail - ReservePoints(t, v, new_size))
                   st == [r.st EXCEPT !.made = @ + vc.made, !.gone = @ + vc.gone]
               IN IF ~vc.ok THEN Res(r.vec, "value", 0, st)
                  ELSE Res(MkVector(vc.buf, new_size), "none", 0, st)
  ELSE IF new_size < v.size
  THEN Res(MkVector(DestroyN(v.data, new_size, v.size - new_size), new_size),
           "none", 0, Stats(0, 0, 0, v.size - new_size, 0, 0, 0))
  ELSE Res(v, "none", 0, NoStats)

\* a capacity that grows by one slot only
GrowByOne(size) == size + 1

\* EmplaceBack's capacity_tmp: 1 for an empty vector, else twice the size
GrowCapacity(size) == IF size = 0 THEN 1 ELSE size * 2

\* an EmplaceBack that transfers the existing elements before it constructs
\* the new one
EmplaceBackTransferFirst(t, v, x, fail) ==
  IF v.size = Capacity(v)
  THEN
    LET capacity_tmp == GrowCapacity(v.size)
        tr == Transfer(t, v.data, 0, v.size, Allocate(capacity_tmp), 0, fail - 1)
        np == 1 + TransferPoints(t, v.size)
    IN IF fail = 1 THEN Res(v, "alloc", 0, NoStats)
       ELSE IF ~tr.ok
       THEN Res([v EXCEPT !.data = tr.src], "transfer", 0,
                Stats(1, Deallocate(tr.dst), tr.copied + tr.moved, tr.gone,
                      tr.copied, tr.moved, LiveCount(tr.dst)))
       ELSE IF fail = np + 1
       THEN Res([v EXCEPT !.data = tr.src], "new", 0,
                Stats(1, Deallocate(tr.dst), tr.copied + tr.moved, 0,
                      tr.copied, tr.moved, LiveCount(tr.dst)))
       ELSE LET old == DestroyN(tr.src, 0, v.size)
            IN Res(MkVector(ConstructAt(tr.dst, v.size, x), v.size + 1), "none",
                   v.size,
                   Stats(1, Deallocate(old), 1 + tr.copied + tr.moved, v.size,
                         tr.copied, tr.moved, LiveCount(old)))
  ELSE
    IF fail = 1 THEN Res(v, "new", 0, NoStats)
    ELSE Res(MkVector(ConstructAt(v.data, v.size, x), v.size + 1), "none", v.size,
             Stats(0, 0, 1, 0, 0, 0, 0))

\* Vector::EmplaceBack(args...), the new element having value x
EmplaceBack(t, v, x, fail) ==
  IF v.size = Capacity(v)
  THEN
    LET capacity_tmp == GrowCapacity(v.size)
        new_data == ConstructAt(Allocate(capacity_tmp), v.size, x)
        tr == Transfer(t, v.data, 0, v.size, new_data, 0, fail - 2)
    IN IF fail = 1 THEN Res(v, "alloc", 0, NoStats)
       ELSE IF fail = 2 THEN Res(v, "new", 0, Stats(1, 1, 0, 0, 0, 0, 0))
       ELSE IF ~tr.ok
       THEN Res([v EXCEPT !.data = tr.src], "transfer", 0,
                Stats(1, Deallocate(tr.dst), 1 + tr.copied + tr.moved, tr.gone,
                      tr.copied, tr.moved, LiveCount(tr.dst)))
       ELSE LET old == DestroyN(tr.src, 0, v.size)
            IN Res(MkVector(tr.dst, v.size + 1), "none", v.size,
                   Stats(1, Deallocate(old), 1 + tr.copied + tr.moved, v.size,
                         tr.copied, tr.moved, LiveCount(old)))
  ELSE
    IF fail = 1 THEN Res(v, "new", 0, NoStats)
    ELSE Res(MkVector(ConstructAt(v.data, v.size, x), v.size + 1), "none", v.size,
             Stats(0, 0, 1, 0, 0, 0, 0))

\* number of operations of EmplaceBack that may throw
EmplaceBackPoints(t, v) ==
  IF v.size = Capacity(v) THEN 2 + TransferPoints(t, v.size) ELSE 1

\* Vector::PushBack(value)
PushBack(t, v, x, fail) == EmplaceBack(t, v, x, fail)

\* a PopBack that only decrements the size
PopBackNoDestroy(v) ==
  Res(MkVector(v.data, v.size - 1), "none", 0, NoStats)

\* Vector::PopBack()
PopBack(v) ==
  Res(MkVector(DestroyN(v.data, v.size - 1, 1), v.size - 1), "none", 0,
      Stats(0, 0, 0, 1, 0, 0, 0))

\* Vector::Emplace(pos, args...), with result = pos - begin() and the new
\* element having value x.  A move constructor that throws is taken to leave
\* its source as it was.
Emplace(t, v, result, x, fail) ==
  IF v.size = result
  THEN [EmplaceBack(t, v, x, fail) EXCEPT !.ret = result]
  ELSE IF v.size < Capacity(v)
  THEN
    LET d1 == [v.data EXCEPT ![v.size + 1] = v.data[v.size],
                             ![v.size] = MovedFrom]
        d2 == MoveBackward(d1, result, v.size - 1, v.size)
        d3 == [d2 EXCEPT ![result + 1] = x]
    IN IF fail = 1 THEN Res(v, "new", 0, NoStats)
       ELSE IF fail = 2 /\ ~t.nothrow_move
       THEN Res(v, "move", 0, Stats(0, 0, 1, 1, 0, 0, 0))
       ELSE Res(MkVector(d3, v.size + 1), "none", result,
                Stats(0, 0, 2, 1, 0, 1, 0))
  ELSE
    LET new_data == ConstructAt(Allocate(v.size * 2), result, x)
        tr1 == Transfer(t, v.data, 0, result, new_data, 0, fail - 2)
        tr2 == Transfer(t, tr1.src, result, v.size - result, tr1.dst, result + 1,
                        fail - 2 - TransferPoints(t, result))
    IN IF fail = 1 THEN Res(v, "alloc", 0, NoStats)
       ELSE IF fail = 2 THEN Res(v, "new", 0, Stats(1, 1, 0, 0, 0, 0, 0))
       ELSE IF ~tr1.ok
       THEN Res([v EXCEPT !.data = tr1.src], "transfer", 0,
                Stats(1, Deallocate(tr1.dst), 1 + tr1.copied + tr1.moved,
                      tr1.gone, tr1.copied, tr1.moved, LiveCount(tr1.dst)))
       ELSE IF ~tr2.ok
       THEN Res([v EXCEPT !.data = tr2.src], "transfer", 0,
                Stats(1, Deallocate(tr2.dst),
                      1 + tr1.copied + tr1.moved + tr2.copied + tr2.moved,
                      tr2.gone, tr1.copied + tr2.copied, tr1.moved + tr2.moved,
                      LiveCount(tr2.dst)))
       ELSE LET old == DestroyN(tr2.src, 0, v.size)
            IN Res(MkVector(tr2.dst, v.size + 1), "none", result,
                   Stats(1, Deallocate(old), 1 + v.size, v.size,
                         tr1.copied + tr2.copied, tr1.moved + tr2.moved,
                         LiveCount(old)))

\* number of operations of Emplace that may throw
EmplacePoints(t, v, result) ==
  IF v.size = result THEN EmplaceBackPoints(t, v)
  ELSE IF v.size < Capacity(v) THEN (IF t.nothrow_move THEN 1 ELSE 2)
  ELSE 2 + TransferPoints(t, v.size)

\* Vector::Insert(pos, value)
Insert(t, v, result, x, fail) == Emplace(t, v, result, x, fail)

\* an Erase that does not shift: it drops the last element
EraseLast(v, p) ==
  Res(MkVector(DestroyN(v.data, v.size - 1, 1), v.size - 1), "none", p,
      Stats(0, 0, 0, 1, 0, 0, 0))

\* Vector::Erase(pos), with p = pos - begin()
Erase(v, p) ==
  LET d1 == MoveForward(v.data, p + 1, v.size, p)
  IN Res(MkVector(DestroyN(d1, v.size - 1, 1), v.size - 1), "none", p,
         Stats(0, 0, 0, 1, 0, 0, 0))

\* Vector::Vector(size_t size)
SizedCtor(size, fail) ==
  LET ap == IF size # 0 THEN 1 ELSE 0
      vc == UninitializedValueConstructN(Allocate(size), 0, size, fail - ap)
  IN IF ap = 1 /\ fail = 1 THEN Res(NoVector, "alloc", 0, NoStats)
     ELSE IF ~vc.ok
     THEN Res(NoVector, "value", 0,
              Stats(ap, Deallocate(vc.buf), vc.made, vc.gone, 0, 0, LiveCount(vc.buf)))
     ELSE Res(MkVector(vc.buf, size), "none", 0, Stats(ap, 0, vc.made, 0, 0, 0, 0))

\* number of operations that may throw when a vector of `size` elements is
\* constructed: the allocation, unless size is 0, and one per element
CtorPoints(size) == (IF size # 0 THEN 1 ELSE 0) + size

\* std::uninitialized_move_n from a source that is not const
UninitializedMoveNMutable(src, sfirst, n, dst, dfirst, failAt) ==
  UninitializedMoveN(src, sfirst, n, dst, dfirst, failAt)

\* std::uninitialized_move_n from a const source: std::move of a const T is a
\* const T&&, which only the copy constructor accepts, so each element is copied
UninitializedMoveNConst(src, sfirst, n, dst, dfirst, failAt) ==
  UninitializedCopyN(src, sfirst, n, dst, dfirst, failAt)

\* the result of a call that reads a second vector: that vector after the call
WithOther(r, other) ==
  [vec |-> r.vec, ok |-> r.ok, threw |-> r.threw, ret |-> r.ret, st |-> r.st,
   other |-> other]

\* Vector::Vector(const Vector& other)
CopyCtor(t, other, fail) ==
  LET ap == IF other.size # 0 THEN 1 ELSE 0
      cp == IF UseMove(t)
            THEN UninitializedMoveNConst(other.data, 0, other.size,
                                         Allocate(other.size), 0, fail - ap)
            ELSE UninitializedCopyN(other.data, 0, other.size,
                                    Allocate(other.size), 0, fail - ap)
      src == [other EXCEPT !.data = cp.src]
  IN IF ap = 1 /\ fail = 1
     THEN WithOther(Res(NoVector, "alloc", 0, NoStats), other)
     ELSE IF ~cp.ok
     THEN WithOther(Res(NoVector, "copy", 0,
                        Stats(ap, Deallocate(cp.dst), cp.copied, cp.gone,
                              cp.copied, 0, LiveCount(cp.dst))), src)
     ELSE WithOther(Res(MkVector(cp.dst, other.size), "none", 0,
                        Stats(ap, 0, cp.copied, 0, cp.copied, 0, 0)), src)

\* a copy assignment that skips the element-wise assignment
AssignNone(buf, rhs, n) == buf

\* copy assignment of slots [0, n) of rhs over those of buf
AssignN(buf, rhs, n) ==
  [i \in DOMAIN buf |-> IF i <= n THEN rhs[i] ELSE buf[i]]

\* Vector::operator=(const Vector& rhs); self says this == &rhs
CopyAssign(t, v, rhs, self, fail) ==
  IF self THEN WithOther(Res(v, "none", 0, NoStats), v)
  ELSE IF rhs.size > Capacity(v)
  THEN LET tmp == CopyCtor(t, rhs, fail)
           old == DestroyN(v.data, 0, v.size)
       IN IF ~tmp.ok THEN WithOther(Res(v, tmp.threw, 0, tmp.st), tmp.other)
          ELSE WithOther(
                 Res(tmp.vec, "none", 0,
                     [tmp.st EXCEPT !.frees = Deallocate(old), !.gone = v.size,
                                    !.leaked = LiveCount(old)]), tmp.other)
  ELSE IF rhs.size < v.size
  THEN WithOther(
         Res(MkVector(DestroyN(AssignN(v.data, rhs.data, rhs.size),
                               rhs.size, v.size - rhs.size), rhs.size),
             "none", 0, Stats(0, 0, 0, v.size - rhs.size, 0, 0, 0)), rhs)
  ELSE LET d1 == AssignN(v.data, rhs.data, v.size)
           cp == UninitializedCopyN(rhs.data, v.size, rhs.size - v.size,
                                    d1, v.size, fail)
           src == [rhs EXCEPT !.data = cp.src]
       IN IF ~cp.ok
          THEN WithOther(Res([v EXCEPT !.data = d1], "copy", 0,
                             Stats(0, 0, cp.copied, cp.gone, cp.copied, 0, 0)),
                         src)
          ELSE WithOther(Res(MkVector(cp.dst, rhs.size), "none", 0,
                             Stats(0, 0, cp.copied, 0, cp.copied, 0, 0)), src)

\* number of operations of the copy assignment that may throw
CopyAssignPoints(v, rhs, self) ==
  IF self THEN 0
  ELSE IF rhs.size > Capacity(v) THEN CtorPoints(rhs.size)
  ELSE IF rhs.size < v.size THEN 0
  ELSE rhs.size - v.size

\* Vector::Swap(other): size_ and data_ are exchanged
Swap(v, other) == [this |-> other, other |-> v]

\* a move assignment that takes rhs's storage and leaves rhs empty
MoveAssignSteal(v, rhs) == [this |-> rhs, other |-> MkVector(<<>>, 0)]

\* Vector::operator=(Vector&& rhs)
MoveAssign(v, rhs) == Swap(v, rhs)

\* a move constructor that copies the members and leaves other as it was
MoveCtorKeep(other) == [this |-> other, other |-> other]

\* Vector::Vector(Vector&& other): the members start as size_ = 0 and an
\* empty data_, and are exchanged with other's
MoveCtor(other) == Swap(MkVector(<<>>, 0), other)

\* Vector::~Vector()
Dtor(v) ==
  LET old == DestroyN(v.data, 0, v.size)
  IN Res(NoVector, "none", 0,
         Stats(0, Deallocate(old), 0, v.size, 0, 0, LiveCount(old)))

\* ---- the bounds assertions ----
\* Offsets and indices are size_t: a value below 0 stands for the huge value
\* the subtraction wraps to, which no capacity or size reaches.

\* an operator+ whose assertion excludes the one-past-the-end offset
RawPlusStrict(capacity, offset) == offset >= 0 /\ offset < capacity

\* the assertion of RawMemory::operator+(offset)
RawPlus(capacity, offset) == offset >= 0 /\ offset <= capacity

\* the assertion of RawMemory::operator[](index)
RawAt(capacity, index) == index >= 0 /\ index < capacity

\* the assertions of Vector::operator[](index): its own and that of data_[index]
VectorAt(v, index) ==
  /\ index >= 0 /\ index < v.size
  /\ RawAt(Capacity(v), index)

\* the assertion of end() and cend(): data_ + size_
End(v) == RawPlus(Capacity(v), v.size)

\* the assertions of EmplaceBack: new_data + size_ or data_ + size_, and
\* data_[size_ - 1] after ++size_
EmplaceBackAsserts(v) ==
  IF v.size = Capacity(v)
  THEN LET capacity_tmp == GrowCapacity(v.size)
       IN /\ RawPlus(capacity_tmp, v.size)
          /\ RawAt(capacity_tmp, (v.size + 1) - 1)
  ELSE /\ RawPlus(Capacity(v), v.size)
       /\ RawAt(Capacity(v), (v.size + 1) - 1)

\* the assertions of Emplace at offset result = pos - begin()
EmplaceAsserts(v, result) ==
  IF v.size = result THEN EmplaceBackAsserts(v)
  ELSE IF v.size < Capacity(v)
  THEN /\ RawPlus(Capacity(v), v.size)
       /\ RawAt(Capacity(v), v.size - 1)
       /\ End(v)
       /\ RawAt(Capacity(v), result)
  ELSE RawPlus(v.size * 2, result)

\* the assertions of the copy assignment: data_[i] and rhs.data_[i] over the
\* common prefix, when the elements are assigned in place
CopyAssignAsserts(v, rhs, self) ==
  IF self \/ rhs.size > Capacity(v) THEN TRUE
  ELSE \A i \in 0..((IF rhs.size < v.size THEN rhs.size ELSE v.size) - 1) :
         RawAt(Capacity(v), i) /\ RawAt(Capacity(rhs), i)

\* ---- RawMemory at the level of pointers ----
RawIds == {"r1", "r2", "r3"}
\* the addresses operator new can return; nullptr is 0
Blocks == 1..MaxBlocks
nullptr == 0

\* a RawMemory object: buffer_ and capacity_; NoRaw is an object that does
\* not exist (not yet constructed, or destroyed)
MkRaw(buffer, capacity) ==
  [alive |-> TRUE, buffer |-> buffer, capacity |-> capacity]
NoRaw == [alive |-> FALSE, buffer |-> nullptr, capacity |-> 0]

\* operator new returns a block it has not returned before: a reused address
\* is a new block for the count of releases
NextBlock(h) ==
  CHOOSE b \in Blocks :
    h[b] = "unused" /\ \A c \in Blocks : c < b => h[c] # "unused"
CanAllocate(h, n) == n = 0 \/ \E b \in Blocks : h[b] = "unused"

\* RawMemory::Allocate(n): the pointer returned and the heap after it
RawAllocate(h, n) ==
  IF n # 0
  THEN [buffer |-> NextBlock(h),
        heap |-> [h EXCEPT ![NextBlock(h)] = "allocated"]]
  ELSE [buffer |-> nullptr, heap |-> h]

\* RawMemory::Deallocate(buf): operator delete; a null pointer is ignored,
\* releasing a block that is already released is recorded
RawDeallocate(h, buf) ==
  IF buf = nullptr THEN h
  ELSE [h EXCEPT ![buf] = IF @ = "allocated" THEN "released"
                          ELSE "released_twice"]

\* RawMemory(size_t capacity)
RawCtor(h, capacity) ==
  LET a == RawAllocate(h, capacity)
  IN [this |-> MkRaw(a.buffer, capacity), heap |-> a.heap]

\* RawMemory(RawMemory&& other): the members start as nullptr and 0; the
\* pointer Allocate returns is dropped; then the members are exchanged
RawMoveCtor(h, other) ==
  LET a == RawAllocate(h, other.capacity)
  IN [this |-> MkRaw(other.buffer, other.capacity),
      other |-> MkRaw(nullptr, 0),
      heap |-> a.heap]

\* RawMemory::operator=(RawMemory&& rhs): std::move of a pointer or an
\* integer copies it; self says this == &rhs
RawMoveAssign(this, rhs, self) ==
  IF self THEN [this |-> this, rhs |-> this]
  ELSE [this |-> MkRaw(rhs.buffer, rhs.capacity), rhs |-> rhs]

\* RawMemory::Swap(other)
RawSwap(this, other) == [this |-> other, other |-> this]

\* RawMemory::~RawMemory(): the heap after Deallocate(buffer_)
RawDtor(h, this) == RawDeallocate(h, this.buffer)

NoRawCall ==
  [op |-> "none", dst |-> "r1", src |-> "r1", buffer |-> nullptr, capacity |-> 0]
\* the record of a call on raw[dst] with source raw[src], whose members
\* before the call are recorded
RawCall(op, dst, src) ==
  [op |-> op, dst |-> dst, src |-> src,
   buffer |-> raw[src].buffer, capacity |-> raw[src].capacity]

\* ---- the state machine ----
Other(v) == CHOOSE w \in VecIds : w # v
\* the vector the element-wise operations are called on; the other one takes
\* part in construction, swap, assignment and destruction
Mutated == {"a"}

\* marks a vector that has seen something else than appends since it was empty
Invalid == <<Raw>>

NoCall ==
  [op |-> "none", v |-> "a", ok |-> TRUE, arg |-> 0, val |-> 0, ret |-> 0,
   pre |-> <<>>, preCap |-> 0, st |-> NoStats, round |-> FALSE, orig |-> <<>>,
   threw |-> "none", preOther |-> NoVector]

Idle == call.op = "none"
AfterInsert(v) == call.op = "Insert" /\ call.ok /\ call.v = v

\* the record of the call just made on vec[v], with result r
\* preOther: the other vector before the call
\* round: an Erase directly after a successful Insert at the same position of
\* the same vector; orig: the elements before that Insert
Call(op, v, r, arg, val) ==
  LET round == op = "Erase" /\ AfterInsert(v) /\ call.arg = arg
  IN [op |-> op, v |-> v, ok |-> r.ok, arg |-> arg, val |-> val, ret |-> r.ret,
      pre |-> Elems(vec[v]), preCap |-> Capacity(vec[v]), st |-> r.st,
      round |-> round, orig |-> IF round THEN call.pre ELSE <<>>,
      threw |-> r.threw, preOther |-> vec[Other(v)]]

\* the appended values of a vector after a call with result r
Pushed(op, v, r, val) ==
  IF r.vec.size = 0 THEN <<>>
  ELSE IF op = "PushBack" /\ r.ok /\ pushed[v] # Invalid
  THEN Append(pushed[v], val)
  ELSE Invalid

\* the capacity bound: the two capacities together stay within MaxCap, and
\* while both vectors are alive neither exceeds MaxCap - 2
WithinBound(v, w) ==
  /\ Capacity(v) + Capacity(w) <= MaxCap
  /\ (v.alive /\ w.alive)
       => Capacity(v) <= MaxCap - 2 /\ Capacity(w) <= MaxCap - 2

\* a call on the single vector v: the failure input must be one the call
\* reaches, and the resulting capacity stays within the bound
Effect(op, v, r, arg, val, fail) ==
  /\ fail # 0 => ~r.ok
  /\ WithinBound(r.vec, vec[Other(v)])
  /\ vec' = [vec EXCEPT ![v] = r.vec]
  /\ call' = Call(op, v, r, arg, val)
  /\ pushed' = [pushed EXCEPT ![v] = Pushed(op, v, r, val)]
  /\ UNCHANGED <<T, raw, heap, rcall>>

\* The record of a call is kept until the caller drops it (Return).  A call
\* starts from no record, except that Erase may also follow a successful
\* Insert on the same vector directly, so that an insert/erase round trip is
\* a pair of consecutive steps.
Apply(op, v, res, arg, val, fail) ==
  \E r \in {res} : Effect(op, v, r, arg, val, fail)

\* a call on vec[v] that reads vec[w]: r.other is vec[w] after the call
EffectCopy(op, v, w, r, arg, val, fail) ==
  /\ fail # 0 => ~r.ok
  /\ WithinBound(r.vec, vec[Other(v)])
  /\ vec' = [u \in VecIds |-> IF u = v THEN r.vec
                              ELSE IF u = w THEN r.other ELSE vec[u]]
  /\ call' = Call(op, v, r, arg, val)
  /\ pushed' = [pushed EXCEPT ![v] = Pushed(op, v, r, val)]
  /\ UNCHANGED <<T, raw, heap, rcall>>

Init ==
  /\ T \in ElemTypes
  /\ vec = [v \in VecIds |-> IF v = "a" THEN MkVector(<<>>, 0) ELSE NoVector]
  /\ call = NoCall
  /\ pushed = [v \in VecIds |-> <<>>]
  /\ raw = [r \in RawIds |-> NoRaw]
  /\ heap = [b \in Blocks |-> "unused"]
  /\ rcall = NoRawCall

DoDefaultCtor ==
  /\ Idle
  /\ \E v \in VecIds :
    /\ ~vec[v].alive
    /\ Apply("Vector", v, Res(MkVector(<<>>, 0), "none", 0, NoStats), 0, 0, 0)

DoSizedCtor ==
  /\ Idle
  /\ \E v \in VecIds, n \in 0..MaxCap :
    /\ ~vec[v].alive
    /\ \E fail \in 0..CtorPoints(n) :
         Apply("VectorN", v, SizedCtor(n, fail), n, 0, fail)

DoCopyCtor ==
  /\ Idle
  /\ \E v \in VecIds :
    /\ ~vec[v].alive /\ vec[Other(v)].alive /\ T.copyable
    /\ \E fail \in 0..CtorPoints(vec[Other(v)].size) :
         \E r \in {CopyCtor(T, vec[Other(v)], fail)} :
           EffectCopy("VectorCopy", v, Other(v), r, 0, 0, fail)

DoMoveCtor ==
  /\ Idle
  /\ \E v \in VecIds :
    /\ ~vec[v].alive /\ vec[Other(v)].alive
    /\ LET r == MoveCtor(vec[Other(v)])
       IN /\ vec' = [vec EXCEPT ![v] = r.this, ![Other(v)] = r.other]
          /\ call' = Call("VectorMove", v, Res(r.this, "none", 0, NoStats), 0, 0)
    /\ pushed' = [w \in VecIds |-> IF vec'[w].size = 0 THEN <<>> ELSE Invalid]
    /\ UNCHANGED <<T, raw, heap, rcall>>

DoDtor ==
  /\ Idle
  /\ \E v \in VecIds :
    /\ vec[v].alive
    /\ Apply("Dtor", v, Dtor(vec[v]), 0, 0, 0)

DoReserve ==
  /\ Idle
  /\ \E v \in Mutated, n \in 0..MaxCap :
    /\ vec[v].alive
    /\ \E fail \in 0..ReservePoints(T, vec[v], n) :
         Apply("Reserve", v, Reserve(T, vec[v], n, fail), n, 0, fail)

DoResize ==
  /\ Idle
  /\ \E v \in Mutated, n \in 0..MaxCap :
    /\ vec[v].alive
    /\ \E fail \in 0..ResizePoints(T, vec[v], n) :
         Apply("Resize", v, Resize(T, vec[v], n, fail), n, 0, fail)

DoPushBack ==
  /\ Idle
  /\ \E v \in Mutated, x \in Values :
    /\ vec[v].alive
    /\ \E fail \in 0..EmplaceBackPoints(T, vec[v]) :
         Apply("PushBack", v, PushBack(T, vec[v], x, fail), 0, x, fail)

DoPopBack ==
  /\ Idle
  /\ \E v \in Mutated :
    /\ vec[v].alive /\ vec[v].size > 0
    /\ Apply("PopBack", v, PopBack(vec[v]), 0, 0, 0)

DoInsert ==
  /\ Idle
  /\ \E v \in Mutated, x \in Values :
    /\ vec[v].alive
    /\ \E p \in 0..vec[v].size :
         \E fail \in 0..EmplacePoints(T, vec[v], p) :
           Apply("Insert", v, Insert(T, vec[v], p, x, fail), p, x, fail)

DoErase ==
  /\ Idle \/ (call.op = "Insert" /\ call.ok)
  /\ \E v \in Mutated :
    /\ vec[v].alive
    /\ Idle \/ AfterInsert(v)
    /\ \E p \in 0..(vec[v].size - 1) :
         \E r \in {Erase(vec[v], p)} : Effect("Erase", v, r, p, 0, 0)

DoSwap ==
  /\ Idle
  /\ \E v \in VecIds :
    /\ vec[v].alive /\ vec[Other(v)].alive
    /\ LET r == Swap(vec[v], vec[Other(v)])
       IN /\ vec' = [vec EXCEPT ![v] = r.this, ![Other(v)] = r.other]
          /\ call' = Call("Swap", v, Res(r.this, "none", 0, NoStats), 0, 0)
    /\ pushed' = [w \in VecIds |-> IF vec'[w].size = 0 THEN <<>> ELSE Invalid]
    /\ UNCHANGED <<T, raw, heap, rcall>>

DoMoveAssign ==
  /\ Idle
  /\ \E v \in VecIds :
    /\ vec[v].alive /\ vec[Other(v)].alive
    /\ LET r == MoveAssign(vec[v], vec[Other(v)])
       IN /\ vec' = [vec EXCEPT ![v] = r.this, ![Other(v)] = r.other]
          /\ call' = Call("MoveAssign", v, Res(r.this, "none", 0, NoStats), 0, 0)
    /\ pushed' = [w \in VecIds |-> IF vec'[w].size = 0 THEN <<>> ELSE Invalid]
    /\ UNCHANGED <<T, raw, heap, rcall>>

DoCopyAssign ==
  /\ Idle
  /\ \E v \in VecIds, rhs \in VecIds :
    /\ vec[v].alive /\ vec[rhs].alive /\ T.copyable
    /\ \E fail \in 0..CopyAssignPoints(vec[v], vec[rhs], v = rhs) :
         \E r \in {CopyAssign(T, vec[v], vec[rhs], v = rhs, fail)} :
           EffectCopy("CopyAssign", v, rhs, r, IF v = rhs THEN 1 ELSE 0, 0, fail)

\* the caller drops the record of the last call
Return ==
  /\ ~Idle
  /\ call' = NoCall
  /\ UNCHANGED <<T, vec, pushed, raw, heap, rcall>>

Next ==
  \/ Return
  \/ DoDefaultCtor \/ DoSizedCtor \/ DoCopyCtor \/ DoMoveCtor \/ DoDtor
  \/ DoReserve \/ DoResize \/ DoPushBack \/ DoPopBack
  \/ DoInsert \/ DoErase \/ DoSwap \/ DoMoveAssign \/ DoCopyAssign

Spec == Init /\ [][Next]_vars

\* ---- the state machine of RawMemory ----
\* releasing a block twice is undefined behaviour: the program may stop or
\* go on in any way, and no step after it is modelled
Defined == \A b \in Blocks : heap[b] # "released_twice"

InitRaw ==
  /\ T = [nothrow_move |-> TRUE, copyable |-> TRUE]
  /\ vec = [v \in VecIds |-> NoVector]
  /\ call = NoCall
  /\ pushed = [v \in VecIds |-> <<>>]
  /\ raw = [r \in RawIds |-> NoRaw]
  /\ heap = [b \in Blocks |-> "unused"]
  /\ rcall = NoRawCall

DoRawDefaultCtor ==
  /\ Defined
  /\ \E r \in RawIds :
    /\ ~raw[r].alive
    /\ raw' = [raw EXCEPT ![r] = MkRaw(nullptr, 0)]
    /\ rcall' = RawCall("RawMemory", r, r)
  /\ UNCHANGED <<T, vec, call, pushed, heap>>

\* operator new may throw instead: then no object is constructed
DoRawCtor ==
  /\ Defined
  /\ \E r \in RawIds, capacity \in 0..MaxRawCap, throws \in BOOLEAN :
    /\ ~raw[r].alive
    /\ throws => capacity # 0
    /\ IF throws
       THEN /\ rcall' = RawCall("bad_alloc", r, r)
            /\ UNCHANGED <<raw, heap>>
       ELSE /\ CanAllocate(heap, capacity)
            /\ LET c == RawCtor(heap, capacity)
               IN raw' = [raw EXCEPT ![r] = c.this] /\ heap' = c.heap
            /\ rcall' = RawCall("RawMemoryN", r, r)
  /\ UNCHANGED <<T, vec, call, pushed>>

\* the constructor is noexcept: when its operator new throws the program is
\* terminated, which is no step here
DoRawMoveCtor ==
  /\ Defined
  /\ \E r \in RawIds, o \in RawIds :
    /\ ~raw[r].alive /\ raw[o].alive
    /\ CanAllocate(heap, raw[o].capacity)
    /\ LET c == RawMoveCtor(heap, raw[o])
       IN /\ raw' = [raw EXCEPT ![r] = c.this, ![o] = c.other]
          /\ heap' = c.heap
    /\ rcall' = RawCall("RawMemoryMove", r, o)
  /\ UNCHANGED <<T, vec, call, pushed>>

DoRawMoveAssign ==
  /\ Defined
  /\ \E r \in RawIds, o \in RawIds :
    /\ raw[r].alive /\ raw[o].alive
    /\ LET c == RawMoveAssign(raw[r], raw[o], r = o)
       IN raw' = [u \in RawIds |-> IF u = r THEN c.this
                                  ELSE IF u = o THEN c.rhs ELSE raw[u]]
    /\ rcall' = RawCall("MoveAssign", r, o)
  /\ UNCHANGED <<T, vec, call, pushed, heap>>

DoRawSwap ==
  /\ Defined
  /\ \E r \in RawIds, o \in RawIds :
    /\ raw[r].alive /\ raw[o].alive
    /\ LET c == RawSwap(raw[r], raw[o])
       IN raw' = [u \in RawIds |-> IF u = o THEN c.other
                                  ELSE IF u = r THEN c.this ELSE raw[u]]
    /\ rcall' = RawCall("Swap", r, o)
  /\ UNCHANGED <<T, vec, call, pushed, heap>>

DoRawDtor ==
  /\ Defined
  /\ \E r \in RawIds :
    /\ raw[r].alive
    /\ heap' = RawDtor(heap, raw[r])
    /\ raw' = [raw EXCEPT ![r] = NoRaw]
    /\ rcall' = RawCall("Dtor", r, r)
  /\ UNCHANGED <<T, vec, call, pushed>>

NextRaw ==
  \/ DoRawDefaultCtor \/ DoRawCtor \/ DoRawMoveCtor
  \/ DoRawMoveAssign \/ DoRawSwap \/ DoRawDtor

SpecRaw == InitRaw /\ [][NextRaw]_vars

\* ---- the claims ----
\* the vector the last call was made on, and its elements before the call
Cur == vec[call.v]
PreSize == Len(call.pre)
Returned(op) == call.op = op /\ call.ok
Failed(op) == call.op = op /\ ~call.ok
\* the call allocated a new block: it is a growth
Grew == call.st.allocs = 1
ThrowingMoveCopyable == [nothrow_move |-> FALSE, copyable |-> TRUE]
\* s with x inserted before index p (0-based)
InsertAt(s, p, x) ==
  [i \in 1..(Len(s) + 1) |-> IF i <= p THEN s[i] ELSE IF i = p + 1 THEN x ELSE s[i - 1]]
\* s without the element at index p (0-based)
RemoveAt(s, p) ==
  [i \in 1..(Len(s) - 1) |-> IF i <= p THEN s[i] ELSE s[i + 1]]
Unchanged == Elems(Cur) = call.pre /\ Capacity(Cur) = call.preCap
\* the vector the last call was made on, as it was before the call: its
\* slots from size on held no object
Pre ==
  MkVector([i \in 1..call.preCap |-> IF i <= PreSize THEN call.pre[i] ELSE Raw],
           PreSize)

\* C1: in every reachable state, also after a failed call, size <= capacity,
\* slots [0, size) each hold a live element and slots [size, capacity) none
VectorInvariant ==
  \A v \in VecIds :
    /\ vec[v].size <= Capacity(vec[v])
    /\ \A i \in 1..Capacity(vec[v]) : (vec[v].data[i] # Raw) <=> (i <= vec[v].size)

\* a call failed on a non-empty vector that has free slots
VectorInvariantWitness ==
  /\ ~call.ok /\ call.op \in {"Insert", "Resize", "PushBack", "CopyAssign"}
  /\ Cur.size >= 1 /\ Cur.size < Capacity(Cur)
  /\ call.st.made >= 1

\* C2: for an element type with a throwing move constructor that is copyable,
\* a growth by Reserve, PushBack or Insert copies every existing element and
\* moves none, and a growth that fails leaves size, capacity and every element
\* as they were
GrowthCopiesAndKeepsOnFailure ==
  (T = ThrowingMoveCopyable /\ call.op \in {"Reserve", "PushBack", "Insert"} /\ Grew)
    => /\ call.st.moved = 0
       /\ call.ok => call.st.copied = PreSize
       /\ ~call.ok => Unchanged

\* a copy failed midway: one element was copied, the copy of the next threw
GrowthCopyFailedMidway ==
  /\ T = ThrowingMoveCopyable /\ Failed("Insert") /\ Grew
  /\ call.threw = "transfer" /\ call.st.copied >= 1 /\ PreSize >= 2

\* number of blocks a vector of this capacity owns
Owned(capacity) == IF capacity > 0 THEN 1 ELSE 0

\* C3: when a constructor fails during Reserve, Resize, PushBack or Insert,
\* nothing is leaked: every object the call constructed has been destroyed
\* again, no block was released with a live object in it, and every block the
\* call allocated has been released unless the vector now owns it
NoLeakOnFailure ==
  (~call.ok /\ call.op \in {"Reserve", "Resize", "PushBack", "Insert"})
    => /\ call.st.leaked = 0
       /\ call.st.made = call.st.gone
       /\ call.st.allocs - call.st.frees
            = Owned(Capacity(Cur)) - Owned(call.preCap)

\* C4: in PushBack and Insert the new element is constructed before any
\* existing element is moved, copied or destroyed: when its construction
\* fails, no element has been touched and the vector is as before the call
NewElementFirst ==
  (call.op \in {"PushBack", "Insert"} /\ call.threw = "new")
    => /\ Unchanged
       /\ call.st.copied = 0 /\ call.st.moved = 0 /\ call.st.gone = 0

\* the construction of the new element failed in a reallocating PushBack of
\* a vector that holds elements
NewElementFailedWitness ==
  /\ call.op = "PushBack" /\ call.threw = "new" /\ Grew /\ PreSize >= 2

\* C5: after n successful PushBack calls on an empty vector the size is n and
\* element i is the i-th appended value
AppendOrder ==
  \A v \in VecIds :
    (vec[v].alive /\ pushed[v] # Invalid) => Elems(vec[v]) = pushed[v]

\* three appends, the last one reallocating
AppendOrderWitness ==
  /\ Returned("PushBack") /\ Grew
  /\ pushed[call.v] # Invalid /\ Len(pushed[call.v]) >= 3

\* C6: a successful PushBack at size = capacity makes the capacity
\* max(1, 2 * capacity), otherwise keeps it; the size grows by one, the old
\* elements keep their places and the returned element is the one at the
\* old size
PushBackEffect ==
  Returned("PushBack")
    => /\ Capacity(Cur) = IF PreSize = call.preCap
                          THEN Max(1, 2 * call.preCap) ELSE call.preCap
       /\ Cur.size = PreSize + 1
       /\ Prefix(Cur.data, PreSize) = call.pre
       /\ call.ret = PreSize
       /\ Cur.data[call.ret + 1] = call.val

\* a PushBack doubled the capacity from 2 to 4
PushBackDoubled ==
  Returned("PushBack") /\ call.preCap = 2 /\ PreSize = 2 /\ Capacity(Cur) = 4

\* C7: Reserve(c) with c <= capacity changes nothing and allocates nothing;
\* with c > capacity it makes the capacity c and keeps the elements
ReserveEffect ==
  Returned("Reserve")
    => /\ Elems(Cur) = call.pre
       /\ IF call.arg <= call.preCap
          THEN Capacity(Cur) = call.preCap /\ call.st.allocs = 0
          ELSE Capacity(Cur) = call.arg

\* a Reserve beyond the capacity of a vector that holds elements, to less
\* than twice the capacity
ReserveGrew ==
  /\ Returned("Reserve") /\ call.arg > call.preCap /\ PreSize >= 2
  /\ call.arg < 2 * call.preCap

\* C8: a successful Insert of x at p gives old[0..p) ++ [x] ++ old[p..),
\* returns p, and makes the capacity max(1, 2 * capacity) exactly when
\* size = capacity before the call
InsertEffect ==
  Returned("Insert")
    => /\ Elems(Cur) = InsertAt(call.pre, call.arg, call.val)
       /\ call.ret = call.arg
       /\ Capacity(Cur) = IF PreSize = call.preCap
                          THEN Max(1, 2 * call.preCap) ELSE call.preCap

\* an Insert in the middle without reallocation, shifting two elements
InsertShifted ==
  /\ Returned("Insert") /\ ~Grew /\ PreSize = 3 /\ call.arg = 1

\* C9: Erase at p gives old[0..p) ++ old[p+1..), keeps the capacity,
\* allocates nothing, destroys exactly one object and returns p
EraseEffect ==
  call.op = "Erase"
    => /\ call.ok
       /\ Elems(Cur) = RemoveAt(call.pre, call.arg)
       /\ Capacity(Cur) = call.preCap
       /\ call.st.allocs = 0 /\ call.st.frees = 0
       /\ call.st.gone = 1 /\ call.st.made = 0
       /\ call.ret = call.arg

\* an Erase of the first of three elements
EraseShifted ==
  call.op = "Erase" /\ PreSize = 3 /\ call.arg = 0

\* C10: Insert at p followed by Erase at p gives back the elements and the
\* size the vector had before the Insert
InsertEraseRoundTrip ==
  call.round => Elems(Cur) = call.orig

\* a round trip in the middle of a vector whose Insert reallocated
RoundTripWitness ==
  /\ call.round /\ Len(call.orig) = 2 /\ call.arg = 1
  /\ call.preCap = 4 /\ call.orig[1] # call.orig[2]

\* C11: a successful Resize(n) sets size to n, keeps the first
\* min(old size, n) elements, value-initializes the elements [old size, n)
\* and leaves the capacity at max(old capacity, n) exactly
ResizeEffect ==
  Returned("Resize")
    => LET kept == IF PreSize < call.arg THEN PreSize ELSE call.arg
       IN /\ Cur.size = call.arg
          /\ Prefix(Cur.data, kept) = Prefix(call.pre, kept)
          /\ \A i \in (PreSize + 1)..call.arg : Cur.data[i] = DefaultValue
          /\ Capacity(Cur) = Max(call.preCap, call.arg)

\* a Resize that grew a vector of non-default elements beyond its capacity
\* by less than a doubling
ResizeGrew ==
  /\ Returned("Resize") /\ Grew /\ PreSize >= 2
  /\ \A i \in 1..PreSize : call.pre[i] # DefaultValue
  /\ call.arg > call.preCap /\ call.arg < 2 * call.preCap

\* C12: when value-initializing a new slot fails in a growing Resize, size
\* and the elements [0, old size) are as before the call, whatever the
\* capacity has become
ResizeFailureKeepsElements ==
  (call.op = "Resize" /\ call.threw = "value") => Elems(Cur) = call.pre

\* the second new element failed after the storage was reallocated
ResizeFailedAfterRealloc ==
  /\ call.op = "Resize" /\ call.threw = "value" /\ Grew
  /\ PreSize >= 1 /\ call.st.made >= 1 /\ Capacity(Cur) > call.preCap

\* C17: for an element type with a non-throwing move constructor, or one
\* that cannot be copied, a growth by Reserve, PushBack or Insert moves each
\* existing element once, copies none, and destroys each old element once
GrowthMoves ==
  ((T.nothrow_move \/ ~T.copyable) /\ Grew
     /\ (Returned("Reserve") \/ Returned("PushBack") \/ Returned("Insert")))
    => /\ call.st.moved = PreSize
       /\ call.st.copied = 0
       /\ call.st.gone = PreSize

\* an Insert into the middle of a full vector of a type that cannot be
\* copied and whose move constructor may throw
GrowthMovedNonCopyable ==
  /\ ~T.nothrow_move /\ ~T.copyable /\ Returned("Insert") /\ Grew
  /\ PreSize >= 2 /\ call.arg >= 1 /\ call.arg < PreSize

\* the operations that take no second vector
SingleOps ==
  {"Vector", "VectorN", "Dtor", "Reserve", "Resize", "PushBack", "PopBack",
   "Insert", "Erase"}

MoveCtorEffect ==
  call.op = "VectorMove"
    => LET A == vec[Other(call.v)]
       IN /\ Cur = call.preOther
          /\ A.size = 0 /\ Capacity(A) = 0
          /\ call.ok /\ call.st = NoStats
          /\ Dtor(A).st.gone = 0
          /\ Dtor(A).st.frees = 0

\* a vector with elements and free slots was moved from
MovedWithSpare ==
  /\ call.op = "VectorMove" /\ Cur.size >= 2 /\ Capacity(Cur) > Cur.size
  /\ vec[Other(call.v)].alive

\* C15: a successful copy assignment a = b gives a the size and element
\* values of b and leaves b as it was.  When b's size exceeds a's capacity,
\* a's capacity becomes b's size, and a failure leaves a as it was.
\* Otherwise a's capacity stays, and exactly the surplus elements of a are
\* destroyed or exactly the missing ones constructed.  A self-assignment
\* changes nothing.
CopyAssignEffect ==
  call.op = "CopyAssign"
    => LET self == call.arg = 1
           a == Pre
           b == call.preOther
           a2 == Cur
           b2 == vec[Other(call.v)]
           st == call.st
       IN /\ self => a2 = a /\ b2 = b /\ call.ok /\ st = NoStats
          /\ (~self /\ call.ok) => Elems(a2) = Elems(b) /\ b2 = b
          /\ (~self /\ b.size > Capacity(a))
               => /\ call.ok => Capacity(a2) = b.size
                  /\ ~call.ok => a2 = a
          /\ (~self /\ b.size <= Capacity(a) /\ call.ok)
               => /\ Capacity(a2) = Capacity(a)
                  /\ st.allocs = 0 /\ st.frees = 0
                  /\ st.gone = Max(a.size - b.size, 0)
                  /\ st.made = Max(b.size - a.size, 0)

\* an assignment in place that overwrote one element with another value and
\* constructed one more
CopyAssignedInPlace ==
  /\ Returned("CopyAssign") /\ call.arg = 0 /\ ~Grew
  /\ PreSize = 1 /\ Cur.size = 2 /\ call.st.made = 1
  /\ call.pre[1] # Cur.data[1]

\* C16: move assignment and Swap exchange the two vectors completely,
\* construct, copy, move and destroy no element, and do not fail
SwapExchanges ==
  call.op \in {"Swap", "MoveAssign"}
    => /\ Cur = call.preOther
       /\ vec[Other(call.v)] = Pre
       /\ call.ok /\ call.st = NoStats

\* a move assignment between two vectors of different sizes and capacities
MoveAssignedDifferent ==
  /\ call.op = "MoveAssign"
  /\ Cur.size >= 1 /\ vec[Other(call.v)].size >= 1
  /\ vec[Other(call.v)].size # Cur.size
  /\ Capacity(vec[Other(call.v)]) # Capacity(Cur)
  /\ Elems(vec[Other(call.v)])[1] # Elems(Cur)[1]

\* C20: no bounds assertion fails in a call made within its preconditions:
\* in every state, end() and operator[] at every index below size pass
\* their assertions on every vector, and every address computation and slot
\* access of PushBack, Insert, Erase and copy assignment passed its own
NoAssertFails ==
  /\ \A v \in VecIds :
       vec[v].alive
         => /\ End(vec[v])
            /\ \A i \in 0..(vec[v].size - 1) : VectorAt(vec[v], i)
  /\ call.op = "PushBack" => EmplaceBackAsserts(Pre)
  /\ call.op = "Insert" => EmplaceAsserts(Pre, call.arg)
  /\ call.op = "Erase" => End(Pre)
  /\ call.op = "CopyAssign"
       => CopyAssignAsserts(Pre, call.preOther, call.arg = 1)

\* an Insert in place, before the last element, that filled the last free
\* slot: end() is now data_ + capacity
InsertFilledLastSlot ==
  /\ Returned("Insert") /\ ~Grew /\ call.arg < PreSize
  /\ Cur.size = Capacity(Cur) /\ Cur.size >= 3

\* C18: after a RawMemory is move-constructed or move-assigned from
\* another one, it holds the buffer and the capacity the source had and the
\* source has a null buffer and capacity 0; no two RawMemory objects hold
\* the same non-null buffer; buffer is non-null iff capacity > 0
RawMoveTransfersOwnership ==
  /\ (rcall.op \in {"RawMemoryMove", "MoveAssign"} /\ rcall.dst # rcall.src)
       => /\ raw[rcall.dst].buffer = rcall.buffer
          /\ raw[rcall.dst].capacity = rcall.capacity
          /\ raw[rcall.src].buffer = nullptr
          /\ raw[rcall.src].capacity = 0
  /\ \A r \in RawIds, q \in RawIds :
       (r # q /\ raw[r].alive /\ raw[q].alive /\ raw[r].buffer # nullptr)
         => raw[r].buffer # raw[q].buffer
  /\ \A r \in RawIds :
       raw[r].alive => (raw[r].buffer # nullptr <=> raw[r].capacity > 0)

\* C19: no block is released twice, and every block that is allocated is
\* the buffer of some RawMemory, so that every block has been released
\* exactly once when all objects are destroyed
BlocksReleasedOnce ==
  \A b \in Blocks :
    /\ heap[b] # "released_twice"
    /\ heap[b] = "allocated"
         => \E r \in RawIds : raw[r].alive /\ raw[r].buffer = b

====
